---- MODULE Spec2Model ----
(***************************************************************************)
(* Model of src/main.py (CSV Email Filter): the email extractor, the CSV   *)
(* and VCF ingesters with their record store, the suspicion classifier,    *)
(* the partitioner, the CSV writer and the batch driver.                   *)
(*                                                                         *)
(* A Python str is a sequence of one-character strings, so that regular    *)
(* expressions, str methods and the sort order are computed character by   *)
(* character.                                                              *)
(*                                                                         *)
(* An operator Op(x_) binds its argument once, as x \in {x_}, and takes    *)
(* the one value of its body: TLC evaluates an argument anew at every use  *)
(* where it evaluates ENABLED (the fairness of FairSpecBatch), and a bound *)
(* variable holds a value.                                                 *)
(***************************************************************************)
EXTENDS Integers, Sequences, FiniteSets, TLC

VARIABLES
    \* ---- one file taken through an ingester (and in the single-file runs
    \* through the partitioner, the writer and the ingester again)
    pc,                 \* where the ingester is
    kind,               \* "csv" (find_emails_in_csv) or "vcf" (parse_vcf_file)
    content,            \* file.read()
    pass,               \* 0 for the input file, 1.. for a written file read back
    delimiter,
    rows,               \* list(reader)
    header_row, first_name_col, last_name_col, email_cols,
    row_idx,            \* index of the row (csv) or card (vcf) being processed
    vcards,
    first_name, last_name,  \* the names of the current row or card
    found_emails,       \* set of the emails of the current row still to store
    cleaned_emails,     \* list of the emails of the current card still to store
    email_records,      \* the record store
    result,             \* the list the ingester returns
    valid_records, suspicious_records,
    written,            \* the records given to write_emails_to_csv
    output,             \* the file write_emails_to_csv wrote
    \* ---- process_folder
    b_pc,               \* where process_folder and process_*_file are
    folder_exists,      \* folder.exists() and folder.is_dir()
    csv_files, vcf_files,   \* the two glob lists
    filter_suspicious,
    total_files, processed,
    file_idx,           \* index of the file being processed, csv files first
    success,            \* the result of the write of the valid list
    attempts,           \* per attempted file: the file, the value returned, the message
    files_out,          \* the output files written so far: path and input file
    \* ---- the classifier applied to one address
    cl_pc, cl_email, cl_result

pvars == <<pc, kind, content, pass, delimiter, rows, header_row, first_name_col,
           last_name_col, email_cols, row_idx, vcards, first_name, last_name,
           found_emails, cleaned_emails, email_records, result, valid_records,
           suspicious_records, written, output>>
bvars == <<b_pc, folder_exists, csv_files, vcf_files, filter_suspicious, total_files,
           processed, file_idx, success, attempts, files_out>>
cvars == <<cl_pc, cl_email, cl_result>>
vars == <<pvars, bvars, cvars>>

(***************************************************************************)
(* Characters and str methods                                              *)
(***************************************************************************)
LowerSeq == <<"a","b","c","d","e","f","g","h","i","j","k","l","m","n","o","p","q","r","s","t","u","v","w","x","y","z">>
UpperSeq == <<"A","B","C","D","E","F","G","H","I","J","K","L","M","N","O","P","Q","R","S","T","U","V","W","X","Y","Z">>
DigitSeq == <<"0","1","2","3","4","5","6","7","8","9">>
\* the printable ASCII characters by code point: 32..95 and 97..126 (the
\* grave accent, code point 96, is not used by any input of the model)
AsciiLowSeq == <<" ","!","\"","#","$","%","&","'","(",")","*","+",",","-",".","/","0","1","2","3","4","5","6","7","8","9",":",";","<","=",">","?","@","A","B","C","D","E","F","G","H","I","J","K","L","M","N","O","P","Q","R","S","T","U","V","W","X","Y","Z","[","\\","]","^","_">>
AsciiHighSeq == <<"a","b","c","d","e","f","g","h","i","j","k","l","m","n","o","p","q","r","s","t","u","v","w","x","y","z","{","|","}","~">>

Range(s_) ==
    CHOOSE v_ \in {(
        {s[i] : i \in 1..Len(s)}
    ) : s \in {s_}} : TRUE

Lower == Range(LowerSeq)
Upper == Range(UpperSeq)
Digit == Range(DigitSeq)
Vowel == {"a","e","i","o","u"}
\* what str.strip() removes
Whitespace == {" ", "\t", "\n", "\r"}
\* \w of the re module, on ASCII text
WordChar == Lower \cup Upper \cup Digit \cup {"_"}

\* ord(c): the code point, which is what str comparison goes by
OrdMap == [c \in Range(AsciiLowSeq) \cup Range(AsciiHighSeq) \cup {"\t", "\n", "\r"} |->
             IF c = "\t" THEN 9
             ELSE IF c = "\n" THEN 10
             ELSE IF c = "\r" THEN 13
             ELSE IF c \in Range(AsciiLowSeq)
                  THEN 31 + (CHOOSE i \in 1..Len(AsciiLowSeq) : AsciiLowSeq[i] = c)
                  ELSE 96 + (CHOOSE i \in 1..Len(AsciiHighSeq) : AsciiHighSeq[i] = c)]
Ord(c_) ==
    CHOOSE v_ \in {(
        OrdMap[c]
    ) : c \in {c_}} : TRUE

LowerMap == [c \in Upper |-> LowerSeq[CHOOSE i \in 1..26 : UpperSeq[i] = c]]
\* str.lower()
StrLower(s_) ==
    CHOOSE v_ \in {(
        [i \in 1..Len(s) |-> IF s[i] \in Upper THEN LowerMap[s[i]] ELSE s[i]]
    ) : s \in {s_}} : TRUE

\* s[a-1:b]: positions a..b (from 1, inclusive), cut off at the ends of s
Slice(s_, a_, b_) ==
    CHOOSE v_ \in {(
    LET lo == IF a < 1 THEN 1 ELSE a
        hi == IF b > Len(s) THEN Len(s) ELSE b
    IN  IF hi < lo THEN << >> ELSE SubSeq(s, lo, hi)
    ) : s \in {s_}, a \in {a_}, b \in {b_}} : TRUE

\* str.strip() / str.rstrip(chars)
RStripChars(s_, chars_) ==
    CHOOSE v_ \in {(
    LET keep == {i \in 1..Len(s) : s[i] \notin chars}
    IN  IF keep = {} THEN << >>
        ELSE Slice(s, 1, CHOOSE i \in keep : \A j \in keep : j <= i)
    ) : s \in {s_}, chars \in {chars_}} : TRUE
LStripChars(s_, chars_) ==
    CHOOSE v_ \in {(
    LET keep == {i \in 1..Len(s) : s[i] \notin chars}
    IN  IF keep = {} THEN << >>
        ELSE Slice(s, CHOOSE i \in keep : \A j \in keep : i <= j, Len(s))
    ) : s \in {s_}, chars \in {chars_}} : TRUE
Strip(s_) ==
    CHOOSE v_ \in {(
        LStripChars(RStripChars(s, Whitespace), Whitespace)
    ) : s \in {s_}} : TRUE

\* sub in s
StartsAt(s_, sub_, i_) ==
    CHOOSE v_ \in {(
    /\ i + Len(sub) - 1 <= Len(s)
    /\ \A k \in 1..Len(sub) : s[i + k - 1] = sub[k]
    ) : s \in {s_}, sub \in {sub_}, i \in {i_}} : TRUE
Contains(s_, sub_) ==
    CHOOSE v_ \in {(
        \E i \in 1..(Len(s) - Len(sub) + 1) : StartsAt(s, sub, i)
    ) : s \in {s_}, sub \in {sub_}} : TRUE

\* str.count(c) for a single character
Count(s_, chars_) ==
    CHOOSE v_ \in {(
        Cardinality({i \in 1..Len(s) : s[i] \in chars})
    ) : s \in {s_}, chars \in {chars_}} : TRUE

AllIn(s_, chars_) ==
    CHOOSE v_ \in {(
        \A i \in 1..Len(s) : s[i] \in chars
    ) : s \in {s_}, chars \in {chars_}} : TRUE

\* position of the first occurrence of c in s at or after position from, 0 if none
FindFrom(s_, c_, from_) ==
    CHOOSE v_ \in {(
    LET hits == {i \in from..Len(s) : s[i] = c}
    IN  IF hits = {} THEN 0 ELSE CHOOSE i \in hits : \A j \in hits : i <= j
    ) : s \in {s_}, c \in {c_}, from \in {from_}} : TRUE
\* position of the last occurrence of c in s, 0 if none
RFind(s_, c_) ==
    CHOOSE v_ \in {(
    LET hits == {i \in 1..Len(s) : s[i] = c}
    IN  IF hits = {} THEN 0 ELSE CHOOSE i \in hits : \A j \in hits : j <= i
    ) : s \in {s_}, c \in {c_}} : TRUE

\* str.split(sep) for a one-character separator
RECURSIVE SplitOn(_, _)
SplitOn(s_, sep_) ==
    CHOOSE v_ \in {(
    LET k == FindFrom(s, sep, 1)
    IN  IF k = 0 THEN <<s>>
        ELSE <<Slice(s, 1, k - 1)>> \o SplitOn(Slice(s, k + 1, Len(s)), sep)
    ) : s \in {s_}, sep \in {sep_}} : TRUE

\* s < t in Python's str order (code point by code point, a prefix is smaller)
RECURSIVE StrLess(_, _)
StrLess(s_, t_) ==
    CHOOSE v_ \in {(
    IF t = << >> THEN FALSE
    ELSE IF s = << >> THEN TRUE
    ELSE IF s[1] = t[1] THEN StrLess(Tail(s), Tail(t))
    ELSE Ord(s[1]) < Ord(t[1])
    ) : s \in {s_}, t \in {t_}} : TRUE

\* '$' of a pattern used without re.MULTILINE: the end of the string, or the
\* position right before a newline that ends the string
DollarBodies(s_) ==
    CHOOSE v_ \in {(
    {s} \cup (IF Len(s) > 0 /\ s[Len(s)] = "\n" THEN {Slice(s, 1, Len(s) - 1)} ELSE {})
    ) : s \in {s_}} : TRUE

(***************************************************************************)
(* extract_emails_from_text                                                *)
(***************************************************************************)
\* [A-Za-z0-9._%+-]
LocalChar == Lower \cup Upper \cup Digit \cup {".", "_", "%", "+", "-"}
\* [A-Za-z0-9.-]
DomainChar == Lower \cup Upper \cup Digit \cup {".", "-"}
\* [A-Z|a-z]: the '|' inside the brackets is a literal character of the class
TldChar == Lower \cup Upper \cup {"|"}

\* \b at position i (between text[i-1] and text[i])
WordBoundary(text_, i_) ==
    CHOOSE v_ \in {(
    LET before == i > 1 /\ i - 1 <= Len(text) /\ text[i - 1] \in WordChar
        after  == i >= 1 /\ i <= Len(text) /\ text[i] \in WordChar
    IN  before # after
    ) : text \in {text_}, i \in {i_}} : TRUE

\* end of the maximal run of characters of a class that starts at position i
\* (the position after the run; i itself when text[i] is not in the class)
RunEnd(text_, i_, chars_) ==
    CHOOSE v_ \in {(
    LET stops == {j \in i..Len(text) : text[j] \notin chars}
    IN  IF stops = {} THEN Len(text) + 1 ELSE CHOOSE j \in stops : \A k \in stops : j <= k
    ) : text \in {text_}, i \in {i_}, chars \in {chars_}} : TRUE

\* One attempt of the pattern at start position s: the position after the
\* match, or 0.  [..]+ runs greedily to the '@'; the domain run backtracks
\* from its longest form to the last '\.' after which two or more TLD
\* characters end on a word boundary, and the TLD itself is taken longest.
MatchEmailAt(text_, s_, bounded_) ==
    CHOOSE v_ \in {(
    IF s > Len(text) \/ (bounded /\ ~WordBoundary(text, s)) THEN 0
    ELSE
    LET a == RunEnd(text, s, LocalChar)
    IN  IF a = s \/ a > Len(text) \/ text[a] # "@" THEN 0
        ELSE
        LET e == RunEnd(text, a + 1, DomainChar)
            ends(p) == {q \in (p + 3)..RunEnd(text, p + 1, TldChar) :
                           ~bounded \/ WordBoundary(text, q)}
            dots == {p \in (a + 2)..(e - 1) : text[p] = "." /\ ends(p) # {}}
        IN  IF dots = {} THEN 0
            ELSE LET p == CHOOSE x \in dots : \A y \in dots : y <= x
                 IN  CHOOSE q \in ends(p) : \A r \in ends(p) : r <= q
    ) : text \in {text_}, s \in {s_}, bounded \in {bounded_}} : TRUE

\* re.findall: leftmost matches, left to right, not overlapping.  The scan
\* of the start positions lo..hi, from the state (position where the search
\* resumes, matches so far) st
ScanAt(text_, i_, st_) ==
    CHOOSE v_ \in {(
    IF i < st.pos THEN st
    ELSE LET q == MatchEmailAt(text, i, TRUE)
         IN  IF q = 0 THEN st
             ELSE [pos |-> q, found |-> Append(st.found, Slice(text, i, q - 1))]
    ) : text \in {text_}, i \in {i_}, st \in {st_}} : TRUE
RECURSIVE ScanRange(_, _, _, _)
ScanRange(text_, lo_, hi_, st_) ==
    CHOOSE v_ \in {(
    IF lo > hi THEN st
    ELSE IF lo = hi THEN ScanAt(text, lo, st)
    ELSE LET mid == (lo + hi) \div 2
             left == ScanRange(text, lo, mid, st)
         IN  \* the left half is computed before the right half starts
             IF left.pos > hi THEN left ELSE ScanRange(text, mid + 1, hi, left)
    ) : text \in {text_}, lo \in {lo_}, hi \in {hi_}, st \in {st_}} : TRUE
FindAllEmails(text_) ==
    CHOOSE v_ \in {(
        ScanRange(text, 1, Len(text), [pos |-> 1, found |-> << >>]).found
    ) : text \in {text_}} : TRUE

extract_emails_from_text(text_) ==
    CHOOSE v_ \in {(
        Range(FindAllEmails(text))
    ) : text \in {text_}} : TRUE

(***************************************************************************)
(* is_suspicious_email                                                     *)
(***************************************************************************)
LowerDigit == Lower \cup Digit
UpperDigit == Upper \cup Digit

\* email.split('@', 1) if '@' in email else ('', '')
LocalPart(email_) ==
    CHOOSE v_ \in {(
    LET k == FindFrom(email, "@", 1)
    IN  IF k = 0 THEN << >> ELSE Slice(email, 1, k - 1)
    ) : email \in {email_}} : TRUE
DomainPart(email_) ==
    CHOOSE v_ \in {(
    LET k == FindFrom(email, "@", 1)
    IN  IF k = 0 THEN << >> ELSE Slice(email, k + 1, Len(email))
    ) : email \in {email_}} : TRUE

\* vowel_count < len(local_part) * 0.15
LowVowelRatio(local_part_) ==
    CHOOSE v_ \in {(
        Count(local_part, Vowel) * 100 < Len(local_part) * 15
    ) : local_part \in {local_part_}} : TRUE

\* re.match(r'^[class]{n,}$', s)
MatchesClassRun(s_, chars_, n_) ==
    CHOOSE v_ \in {(
    \E t \in DollarBodies(s) : Len(t) >= n /\ AllIn(t, chars)
    ) : s \in {s_}, chars \in {chars_}, n \in {n_}} : TRUE

\* Pattern 1 with the lengths of pattern 5: more than 30 characters, 25 or
\* more of [a-z0-9]
Rule1Over30(email_) ==
    CHOOSE v_ \in {(
    LET local_part == LocalPart(email)
    IN  /\ Len(local_part) > 30
        /\ MatchesClassRun(local_part, LowerDigit, 25)
        /\ LowVowelRatio(local_part)
    ) : email \in {email_}} : TRUE

\* Pattern 1: very long random-looking local part
Rule1(email_) ==
    CHOOSE v_ \in {(
    LET local_part == LocalPart(email)
    IN  /\ Len(local_part) > 40
        /\ MatchesClassRun(local_part, LowerDigit, 35)
        /\ LowVowelRatio(local_part)
    ) : email \in {email_}} : TRUE

\* Pattern 2: re.search(r'\.{3,}|_{3,}|-{3,}', local_part)
Rule2(email_) ==
    CHOOSE v_ \in {(
    LET local_part == LocalPart(email)
    IN  \E i \in 1..(Len(local_part) - 2) :
            /\ local_part[i] \in {".", "_", "-"}
            /\ local_part[i + 1] = local_part[i]
            /\ local_part[i + 2] = local_part[i]
    ) : email \in {email_}} : TRUE

\* Pattern 3: more than 70% digits in a local part longer than 15
Rule3(email_) ==
    CHOOSE v_ \in {(
    LET local_part == LocalPart(email)
    IN  /\ Len(local_part) > 15
        /\ Count(local_part, Digit) * 10 > 7 * Len(local_part)
    ) : email \in {email_}} : TRUE

\* Pattern 4: re.match(r'^[a-z0-9]{25,}\.(com|net|org)$', domain)
Rule4(email_) ==
    CHOOSE v_ \in {(
    \E t \in DollarBodies(DomainPart(email)) :
        LET k == FindFrom(t, ".", 1)
        IN  /\ k >= 26
            /\ AllIn(Slice(t, 1, k - 1), LowerDigit)
            /\ Slice(t, k + 1, Len(t)) \in {<<"c","o","m">>, <<"n","e","t">>, <<"o","r","g">>}
    ) : email \in {email_}} : TRUE

suspicious_keywords ==
    << <<"u","n","s","u","b">>,
       <<"u","n","s","u","b","s","c","r","i","b","e">>,
       <<"r","e","m","o","v","e">>,
       <<"o","p","t","o","u","t">>,
       <<"n","o","r","e","p","l","y">>,
       <<"n","o","-","r","e","p","l","y">>,
       <<"d","o","n","o","t","r","e","p","l","y">> >>

\* Pattern 5: a marketing keyword together with a long random local part
Rule5(email_) ==
    CHOOSE v_ \in {(
    LET local_part == LocalPart(email)
        email_lower == StrLower(email)
    IN  /\ \E i \in 1..Len(suspicious_keywords) : Contains(email_lower, suspicious_keywords[i])
        /\ Len(local_part) > 30
        /\ MatchesClassRun(local_part, LowerDigit, 25)
        /\ LowVowelRatio(local_part)
    ) : email \in {email_}} : TRUE

\* Pattern 6: re.search(r'(.)\1{8,}', email_lower); '.' matches no newline
Rule6(email_) ==
    CHOOSE v_ \in {(
    LET email_lower == StrLower(email)
    IN  \E i \in 1..(Len(email_lower) - 8) :
            /\ email_lower[i] # "\n"
            /\ \A k \in 1..8 : email_lower[i + k] = email_lower[i]
    ) : email \in {email_}} : TRUE

\* Pattern 7 with the pattern matched against the local part
Rule7OnLocalPart(email_) ==
    CHOOSE v_ \in {(
    LET local_part == LocalPart(email)
    IN  /\ Len(local_part) > 30
        /\ MatchesClassRun(local_part, UpperDigit, 25)
        /\ Count(local_part, Upper) > 0
        /\ Count(local_part, Digit) > 0
    ) : email \in {email_}} : TRUE

\* Pattern 7: len(local_part) > 30 and re.match(r'^[A-Z0-9]{25,}$', email),
\* with an uppercase letter and a digit in the local part
Rule7(email_) ==
    CHOOSE v_ \in {(
    LET local_part == LocalPart(email)
    IN  /\ Len(local_part) > 30
        /\ MatchesClassRun(email, UpperDigit, 25)
        /\ Count(local_part, Upper) > 0
        /\ Count(local_part, Digit) > 0
    ) : email \in {email_}} : TRUE

\* Pattern 8: re.match(r'^[A-Z0-9]+\.[0-9]+\.[0-9]+\.[0-9]+@', email); no
\* class of the pattern holds '.' or '@', so the four segments are the local
\* part split at its dots
Rule8(email_) ==
    CHOOSE v_ \in {(
    LET local_part == LocalPart(email)
        segs == SplitOn(local_part, ".")
    IN  /\ Len(local_part) > 35
        /\ FindFrom(email, "@", 1) > 0
        /\ Len(segs) = 4
        /\ Len(segs[1]) > 0 /\ AllIn(segs[1], UpperDigit)
        /\ \A i \in 2..4 : Len(segs[i]) > 0 /\ AllIn(segs[i], Digit)
    ) : email \in {email_}} : TRUE

is_suspicious_email(email_) ==
    CHOOSE v_ \in {(
    \/ Rule1(email)
    \/ Rule2(email)
    \/ Rule3(email)
    \/ Rule4(email)
    \/ Rule5(email)
    \/ Rule6(email)
    \/ Rule7(email)
    \/ Rule8(email)
    ) : email \in {email_}} : TRUE

(***************************************************************************)
(* Records and the record store.  email_records is a Python dict: its      *)
(* values in insertion order, looked up by the email key.                  *)
(***************************************************************************)
EmailRecord(fname_, lname_, email_) ==
    CHOOSE v_ \in {(
    [first_name |-> fname, last_name |-> lname, email |-> email]
    ) : fname \in {fname_}, lname \in {lname_}, email \in {email_}} : TRUE

Emails(records_) ==
    CHOOSE v_ \in {(
        {records[i].email : i \in 1..Len(records)}
    ) : records \in {records_}} : TRUE

\* email in email_records
InStore(store_, email_) ==
    CHOOSE v_ \in {(
        \E i \in 1..Len(store) : store[i].email = email
    ) : store \in {store_}, email \in {email_}} : TRUE

\* a store that takes every discovered email as a new record
InsertOrMergeAppend(store_, fname_, lname_, email_) ==
    CHOOSE v_ \in {(
    Append(store, EmailRecord(fname, lname, email))
    ) : store \in {store_}, fname \in {fname_}, lname \in {lname_}, email \in {email_}} : TRUE

\* a merge in which the names of the later row or card win
InsertOrMergeOverwrite(store_, fname_, lname_, email_) ==
    CHOOSE v_ \in {(
    IF ~InStore(store, email)
    THEN Append(store, EmailRecord(fname, lname, email))
    ELSE [i \in 1..Len(store) |->
            IF store[i].email # email THEN store[i]
            ELSE [store[i] EXCEPT
                    !.first_name = IF fname # << >> THEN fname ELSE @,
                    !.last_name  = IF lname # << >> THEN lname ELSE @]]
    ) : store \in {store_}, fname \in {fname_}, lname \in {lname_}, email \in {email_}} : TRUE

\* the body of "for email in ...": insert the record, or fill the empty name
\* fields of the record already stored under that email
InsertOrMerge(store_, fname_, lname_, email_) ==
    CHOOSE v_ \in {(
    IF ~InStore(store, email)
    THEN Append(store, EmailRecord(fname, lname, email))
    ELSE [i \in 1..Len(store) |->
            IF store[i].email # email THEN store[i]
            ELSE [store[i] EXCEPT
                    !.first_name = IF store[i].first_name = << >> /\ fname # << >>
                                   THEN fname ELSE @,
                    !.last_name  = IF store[i].last_name = << >> /\ lname # << >>
                                   THEN lname ELSE @]]
    ) : store \in {store_}, fname \in {fname_}, lname \in {lname_}, email \in {email_}} : TRUE

\* the records in the order of their insertion, unsorted
InsertionOrder(records_) ==
    CHOOSE v_ \in {(
        records
    ) : records \in {records_}} : TRUE

\* sorted(list(email_records.values()), key=lambda x: x.email): a stable sort
RECURSIVE SortedByEmail(_)
SortedByEmail(records_) ==
    CHOOSE v_ \in {(
    IF records = << >> THEN << >>
    ELSE LET n == Len(records)
             done == SortedByEmail(SubSeq(records, 1, n - 1))
             x == records[n]
             k == Cardinality({i \in 1..Len(done) : ~StrLess(x.email, done[i].email)})
         IN  SubSeq(done, 1, k) \o <<x>> \o SubSeq(done, k + 1, Len(done))
    ) : records \in {records_}} : TRUE

(***************************************************************************)
(* filter_suspicious_emails                                                *)
(***************************************************************************)
IsSuspiciousRecord(record_) ==
    CHOOSE v_ \in {(
        is_suspicious_email(record.email)
    ) : record \in {record_}} : TRUE
IsValidRecord(record_) ==
    CHOOSE v_ \in {(
        ~is_suspicious_email(record.email)
    ) : record \in {record_}} : TRUE

\* a filter that leaves the suspicious records in the valid list as well
FilterKeepingAll(records_) ==
    CHOOSE v_ \in {(
    [valid |-> records, suspicious |-> SelectSeq(records, IsSuspiciousRecord)]
    ) : records \in {records_}} : TRUE

filter_suspicious_emails(records_) ==
    CHOOSE v_ \in {(
    [valid |-> SelectSeq(records, IsValidRecord),
     suspicious |-> SelectSeq(records, IsSuspiciousRecord)]
    ) : records \in {records_}} : TRUE

(***************************************************************************)
(* The csv module as find_emails_in_csv and write_emails_to_csv use it:    *)
(* csv.reader(file, delimiter=d) and csv.writer(file) with the remaining   *)
(* settings of the 'excel' dialect (quotechar '"', doublequote, minimal    *)
(* quoting, no escapechar, not strict, line terminator '\r\n').            *)
(***************************************************************************)
None == -1

QuoteChar == "\""

\* the reader's state after one character c (parse_process_char); EOL is the
\* end-of-line event the reader raises after the last character of a line
EOL == "EOL"
SaveField(st_) ==
    CHOOSE v_ \in {(
        [st EXCEPT !.fields = Append(@, st.field), !.field = << >>]
    ) : st \in {st_}} : TRUE
AddChar(st_, c_) ==
    CHOOSE v_ \in {(
        [st EXCEPT !.field = Append(@, c)]
    ) : st \in {st_}, c \in {c_}} : TRUE
ProcessChar(st_, c_, delim_) ==
    CHOOSE v_ \in {(
    LET startField ==
            IF c \in {"\n", "\r", EOL}
            THEN [SaveField(st) EXCEPT !.state = IF c = EOL THEN "START_RECORD" ELSE "EAT_CRNL"]
            ELSE IF c = QuoteChar THEN [st EXCEPT !.state = "IN_QUOTED_FIELD"]
            ELSE IF c = delim THEN [SaveField(st) EXCEPT !.state = "START_FIELD"]
            ELSE [AddChar(st, c) EXCEPT !.state = "IN_FIELD"]
    IN  CASE st.state = "START_RECORD" ->
                IF c = EOL THEN st
                ELSE IF c \in {"\n", "\r"} THEN [st EXCEPT !.state = "EAT_CRNL"]
                ELSE startField
          [] st.state = "START_FIELD" -> startField
          [] st.state = "IN_FIELD" ->
                IF c \in {"\n", "\r", EOL}
                THEN [SaveField(st) EXCEPT !.state = IF c = EOL THEN "START_RECORD" ELSE "EAT_CRNL"]
                ELSE IF c = delim THEN [SaveField(st) EXCEPT !.state = "START_FIELD"]
                ELSE AddChar(st, c)
          [] st.state = "IN_QUOTED_FIELD" ->
                IF c = EOL THEN st
                ELSE IF c = QuoteChar THEN [st EXCEPT !.state = "QUOTE_IN_QUOTED_FIELD"]
                ELSE AddChar(st, c)
          [] st.state = "QUOTE_IN_QUOTED_FIELD" ->
                IF c = QuoteChar THEN [AddChar(st, c) EXCEPT !.state = "IN_QUOTED_FIELD"]
                ELSE IF c = delim THEN [SaveField(st) EXCEPT !.state = "START_FIELD"]
                ELSE IF c \in {"\n", "\r", EOL}
                THEN [SaveField(st) EXCEPT !.state = IF c = EOL THEN "START_RECORD" ELSE "EAT_CRNL"]
                ELSE [AddChar(st, c) EXCEPT !.state = "IN_FIELD"]
          [] st.state = "EAT_CRNL" ->
                IF c = EOL THEN [st EXCEPT !.state = "START_RECORD"] ELSE st
    ) : st \in {st_}, c \in {c_}, delim \in {delim_}} : TRUE

\* a record is complete when the end of a line leaves the reader in START_RECORD
EndOfLine(st_, delim_) ==
    CHOOSE v_ \in {(
    LET after == ProcessChar(st, EOL, delim)
    IN  IF after.state = "START_RECORD"
        THEN [after EXCEPT !.rows = Append(@, after.fields), !.fields = << >>]
        ELSE after
    ) : st \in {st_}, delim \in {delim_}} : TRUE

\* the reader's state after the character at position i, and after the end
\* of the line if the line ends there
ReadAt(text_, i_, st_, delim_) ==
    CHOOSE v_ \in {(
    LET after == ProcessChar(st, text[i], delim)
    IN  IF text[i] = "\n" \/ i = Len(text) THEN EndOfLine(after, delim) ELSE after
    ) : text \in {text_}, i \in {i_}, st \in {st_}, delim \in {delim_}} : TRUE
RECURSIVE ReadRange(_, _, _, _, _)
ReadRange(text_, lo_, hi_, st_, delim_) ==
    CHOOSE v_ \in {(
    IF lo > hi THEN st
    ELSE IF lo = hi THEN ReadAt(text, lo, st, delim)
    ELSE LET mid == (lo + hi) \div 2
             left == ReadRange(text, lo, mid, st, delim)
         IN  \* the left half is computed before the right half starts
             IF left.state = "" THEN left ELSE ReadRange(text, mid + 1, hi, left, delim)
    ) : text \in {text_}, lo \in {lo_}, hi \in {hi_}, st \in {st_}, delim \in {delim_}} : TRUE

\* list(csv.reader(file, delimiter=delimiter)) over the lines of the content;
\* at the end of the input a field left open by an unterminated quote is saved
CsvReader(text_, delim_) ==
    CHOOSE v_ \in {(
    LET st == ReadRange(text, 1, Len(text),
                        [state |-> "START_RECORD", field |-> << >>, fields |-> << >>,
                         rows |-> << >>],
                        delim)
    IN  IF st.state = "IN_QUOTED_FIELD" \/ st.field # << >>
        THEN Append(st.rows, Append(st.fields, st.field))
        ELSE st.rows
    ) : text \in {text_}, delim \in {delim_}} : TRUE

\* one field as csv.writer writes it: quoted when it holds the delimiter, the
\* quote character or a character of the line terminator, quotes doubled
RECURSIVE DoubleQuotes(_)
DoubleQuotes(field_) ==
    CHOOSE v_ \in {(
    IF field = << >> THEN << >>
    ELSE (IF field[1] = QuoteChar THEN <<QuoteChar, QuoteChar>> ELSE <<field[1]>>)
         \o DoubleQuotes(Tail(field))
    ) : field \in {field_}} : TRUE
WriteField(field_) ==
    CHOOSE v_ \in {(
    IF \E i \in 1..Len(field) : field[i] \in {",", QuoteChar, "\r", "\n"}
    THEN <<QuoteChar>> \o DoubleQuotes(field) \o <<QuoteChar>>
    ELSE field
    ) : field \in {field_}} : TRUE
\* writer.writerow(fields)
RECURSIVE JoinFields(_)
JoinFields(fields_) ==
    CHOOSE v_ \in {(
    IF fields = << >> THEN << >>
    ELSE IF Len(fields) = 1 THEN WriteField(fields[1])
    ELSE WriteField(fields[1]) \o <<",">> \o JoinFields(Tail(fields))
    ) : fields \in {fields_}} : TRUE
WriteRow(fields_) ==
    CHOOSE v_ \in {(
        JoinFields(fields) \o <<"\r", "\n">>
    ) : fields \in {fields_}} : TRUE

\* text-mode read of a file: '\r\n' and a lone '\r' arrive as '\n'
NewlineAt(data_, i_) ==
    CHOOSE v_ \in {(
    IF data[i] = "\r" THEN <<"\n">>
    ELSE IF data[i] = "\n" /\ i > 1 /\ data[i - 1] = "\r" THEN << >>
    ELSE <<data[i]>>
    ) : data \in {data_}, i \in {i_}} : TRUE
RECURSIVE NewlinesRange(_, _, _)
NewlinesRange(data_, lo_, hi_) ==
    CHOOSE v_ \in {(
    IF lo > hi THEN << >>
    ELSE IF lo = hi THEN NewlineAt(data, lo)
    ELSE LET mid == (lo + hi) \div 2
         IN  NewlinesRange(data, lo, mid) \o NewlinesRange(data, mid + 1, hi)
    ) : data \in {data_}, lo \in {lo_}, hi \in {hi_}} : TRUE
UniversalNewlines(data_) ==
    CHOOSE v_ \in {(
        NewlinesRange(data, 1, Len(data))
    ) : data \in {data_}} : TRUE

(***************************************************************************)
(* Delimiter detection of find_emails_in_csv                               *)
(***************************************************************************)
\* the sniffer found no delimiter (csv.Error)
SniffError == "csv.Error"

\* the non-empty lines of the sample: filter(None, data.split('\n'))
SampleLines(sample_) ==
    CHOOSE v_ \in {(
        SelectSeq(SplitOn(sample, "\n"), LAMBDA l : l # << >>)
    ) : sample \in {sample_}} : TRUE

\* Sniffer._guess_delimiter on a sample of at most 10 lines: the candidates
\* are the characters that occur the same number of times (not zero) on
\* every line; among several the first of the preferred list wins, else the
\* one with the highest count and then the highest code point
SnifferPreferred == <<",", "\t", ";", " ", ":">>
GuessDelimiter(sample_) ==
    CHOOSE v_ \in {(
    LET lines == SampleLines(sample)
        chars == UNION {Range(lines[i]) : i \in 1..Len(lines)}
        delims == {c \in chars : \A i \in 1..Len(lines) :
                                    Count(lines[i], {c}) = Count(lines[1], {c})}
        pref == {i \in 1..Len(SnifferPreferred) : SnifferPreferred[i] \in delims}
        better(c, d) ==
            \/ Count(lines[1], {c}) > Count(lines[1], {d})
            \/ Count(lines[1], {c}) = Count(lines[1], {d}) /\ Ord(c) >= Ord(d)
    IN  IF delims = {} THEN SniffError
        ELSE IF pref # {} THEN SnifferPreferred[CHOOSE i \in pref : \A j \in pref : i <= j]
        ELSE CHOOSE c \in delims : \A d \in delims : better(c, d)
    ) : sample \in {sample_}} : TRUE

\* csv.Sniffer().sniff(sample).delimiter: the results the sniffer can give.
\* A sample with a quote character goes through the sniffer's search for
\* quoted fields first, which can name any character next to a quoted field
\* that is neither a word character, a newline nor a quote; the result is
\* then one of those or the result of _guess_delimiter.
SniffResults(sample_) ==
    CHOOSE v_ \in {(
    IF \E i \in 1..Len(sample) : sample[i] \in {QuoteChar, "'"}
    THEN {GuessDelimiter(sample)}
         \cup {sample[i] : i \in {j \in 1..Len(sample) :
                                    sample[j] \notin WordChar \cup {"\n", QuoteChar, "'"}}}
    ELSE {GuessDelimiter(sample)}
    ) : sample \in {sample_}} : TRUE

\* delimiter = None
NoDelimiter == "None"

\* the delimiters counted when the sniffer fails, in the order of the list
FallbackDelimiters == <<",", ";", "\t", "|">>
FallbackDelimiter(text_) ==
    CHOOSE v_ \in {(
    LET best == {i \in 1..4 : \A j \in 1..4 :
                    Count(text, {FallbackDelimiters[i]}) >= Count(text, {FallbackDelimiters[j]})}
        first == CHOOSE i \in best : \A j \in best : i <= j
    IN  IF Count(text, {FallbackDelimiters[first]}) > 0
        THEN FallbackDelimiters[first] ELSE NoDelimiter
    ) : text \in {text_}} : TRUE

\* the values "delimiter" can have after the try block of lines 291-306
SampleSize == 1024
DetectedDelimiters(text_) ==
    CHOOSE v_ \in {(
    LET sample == Slice(text, 1, SampleSize)
    IN  IF Strip(sample) = << >> THEN {","}
        ELSE {IF r = SniffError THEN FallbackDelimiter(text) ELSE r :
                 r \in SniffResults(sample)}
    ) : text \in {text_}} : TRUE

(***************************************************************************)
(* Header detection and data rows of find_emails_in_csv.  Row and column   *)
(* indices are Python's (from 0); rows[i + 1] is the row of index i.       *)
(***************************************************************************)
Min(S_) ==
    CHOOSE v_ \in {(
        CHOOSE x \in S : \A y \in S : x <= y
    ) : S \in {S_}} : TRUE

kw_first == <<"f","i","r","s","t">>
kw_last == <<"l","a","s","t">>
kw_name == <<"n","a","m","e">>
kw_email == <<"e","m","a","i","l">>
kw_e_mail == <<"e","-","m","a","i","l">>
kw_mail == <<"m","a","i","l">>

\* [cell.lower().strip() for cell in row]
RowLower(row_) ==
    CHOOSE v_ \in {(
        [j \in 1..Len(row) |-> Strip(StrLower(row[j]))]
    ) : row \in {row_}} : TRUE

IsFirstNameCell(cell_) ==
    CHOOSE v_ \in {(
        Contains(cell, kw_first) /\ Contains(cell, kw_name)
    ) : cell \in {cell_}} : TRUE
IsLastNameCell(cell_) ==
    CHOOSE v_ \in {(
        Contains(cell, kw_last) /\ Contains(cell, kw_name)
    ) : cell \in {cell_}} : TRUE
IsEmailCell(cell_) ==
    CHOOSE v_ \in {(
    Contains(cell, kw_email) \/ Contains(cell, kw_e_mail) \/ Contains(cell, kw_mail)
    ) : cell \in {cell_}} : TRUE

\* the column indices of a row whose cell satisfies a test
FirstNameCols(row_) ==
    CHOOSE v_ \in {(
        {j - 1 : j \in {k \in 1..Len(row) : IsFirstNameCell(RowLower(row)[k])}}
    ) : row \in {row_}} : TRUE
LastNameCols(row_) ==
    CHOOSE v_ \in {(
        {j - 1 : j \in {k \in 1..Len(row) : IsLastNameCell(RowLower(row)[k])}}
    ) : row \in {row_}} : TRUE
EmailCols(row_) ==
    CHOOSE v_ \in {(
        {j - 1 : j \in {k \in 1..Len(row) : IsEmailCell(RowLower(row)[k])}}
    ) : row \in {row_}} : TRUE

\* email_cols.append(j) for every j of a set not yet in the list, in column order
RECURSIVE AppendNew(_, _)
AppendNew(cols_, js_) ==
    CHOOSE v_ \in {(
    IF js = {} THEN cols
    ELSE LET j == Min(js)
         IN  AppendNew(IF \E k \in 1..Len(cols) : cols[k] = j THEN cols ELSE Append(cols, j),
                       js \ {j})
    ) : cols \in {cols_}, js \in {js_}} : TRUE

\* one pass of the loop "for i, row in enumerate(rows[:5])" over the row of index i
HeaderStep(h_, i_, row_) ==
    CHOOSE v_ \in {(
    LET fcols == FirstNameCols(row)
        lcols == LastNameCols(row)
        ecols == EmailCols(row)
        \* first name: the column is taken and header_row is set to i
        h1 == IF h.first_name_col = None /\ fcols # {}
              THEN [h EXCEPT !.first_name_col = Min(fcols), !.header_row = i]
              ELSE h
        \* last name: header_row is set only if it is still None
        h2 == IF h1.last_name_col = None /\ lcols # {}
              THEN [h1 EXCEPT !.last_name_col = Min(lcols),
                              !.header_row = IF @ = None THEN i ELSE @]
              ELSE h1
        \* email columns: header_row is set only if it is still None
        new == {j \in ecols : \A k \in 1..Len(h2.email_cols) : h2.email_cols[k] # j}
    IN  IF new = {} THEN h2
        ELSE [h2 EXCEPT !.email_cols = AppendNew(@, new),
                        !.header_row = IF @ = None THEN i ELSE @]
    ) : h \in {h_}, i \in {i_}, row \in {row_}} : TRUE

HeaderScanRows == 5

RECURSIVE HeaderScan(_, _, _)
HeaderScan(h_, i_, rws_) ==
    CHOOSE v_ \in {(
    IF i >= Len(rws) \/ i >= HeaderScanRows THEN h
    ELSE HeaderScan(HeaderStep(h, i, rws[i + 1]), i + 1, rws)
    ) : h \in {h_}, i \in {i_}, rws \in {rws_}} : TRUE

DetectHeader(rws_) ==
    CHOOSE v_ \in {(
    HeaderScan([header_row |-> None, first_name_col |-> None, last_name_col |-> None,
                email_cols |-> << >>], 0, rws)
    ) : rws \in {rws_}} : TRUE

\* start_row = header_row + 1 if header_row is not None else 0
StartRow(hrow_) ==
    CHOOSE v_ \in {(
        IF hrow # None THEN hrow + 1 ELSE 0
    ) : hrow \in {hrow_}} : TRUE

\* a name column that falls back on the first cell of the row when no column
\* was detected
NameFromColumnOrFirst(row_, col_) ==
    CHOOSE v_ \in {(
    IF col = None THEN (IF row = << >> THEN << >> ELSE Strip(row[1]))
    ELSE IF col < Len(row) THEN Strip(row[col + 1]) ELSE << >>
    ) : row \in {row_}, col \in {col_}} : TRUE

\* row[col].strip() if the column was detected and is in range, else ""
NameFromColumn(row_, col_) ==
    CHOOSE v_ \in {(
    IF col # None /\ col < Len(row) THEN Strip(row[col + 1]) ELSE << >>
    ) : row \in {row_}, col \in {col_}} : TRUE

\* found_emails of one row: the detected email columns first, then every cell
RowEmails(row_, cols_) ==
    CHOOSE v_ \in {(
    UNION {extract_emails_from_text(row[cols[k] + 1]) :
              k \in {n \in 1..Len(cols) :
                        cols[n] < Len(row) /\ Strip(row[cols[n] + 1]) # << >>}}
    \cup
    UNION {extract_emails_from_text(row[j]) :
              j \in {n \in 1..Len(row) : row[n] # << >> /\ Strip(row[n]) # << >>}}
    ) : row \in {row_}, cols \in {cols_}} : TRUE

(***************************************************************************)
(* parse_vcf_file: cards, unfolding, name and email fields                 *)
(***************************************************************************)
kw_begin == <<"b","e","g","i","n",":","v","c","a","r","d">>
kw_end == <<"e","n","d",":","v","c","a","r","d">>

\* position of the first occurrence of sub (lower case) in s at or after
\* from, compared without regard to case; 0 if none
FindSubFrom(s_, sub_, from_) ==
    CHOOSE v_ \in {(
    LET low == StrLower(s)
        hits == {i \in from..(Len(s) - Len(sub) + 1) : StartsAt(low, sub, i)}
    IN  IF hits = {} THEN 0 ELSE Min(hits)
    ) : s \in {s_}, sub \in {sub_}, from \in {from_}} : TRUE

\* re.findall(r'BEGIN:VCARD(.*?)END:VCARD', content, re.DOTALL | re.IGNORECASE)
RECURSIVE FindCards(_, _)
FindCards(text_, pos_) ==
    CHOOSE v_ \in {(
    LET b == FindSubFrom(text, kw_begin, pos)
        e == IF b = 0 THEN 0 ELSE FindSubFrom(text, kw_end, b + Len(kw_begin))
    IN  IF b = 0 \/ e = 0 THEN << >>
        ELSE <<Slice(text, b + Len(kw_begin), e - 1)>>
             \o FindCards(text, e + Len(kw_end))
    ) : text \in {text_}, pos \in {pos_}} : TRUE

\* vcards, with the whole content as one card when no card is delimited
SplitCards(text_) ==
    CHOOSE v_ \in {(
    IF FindCards(text, 1) = << >> THEN <<text>> ELSE FindCards(text, 1)
    ) : text \in {text_}} : TRUE

\* lines starting with a space or a tab continue the previous line; such a
\* line with no line before it is dropped
RECURSIVE Unfold(_, _)
Unfold(lines_, unfolded_lines_) ==
    CHOOSE v_ \in {(
    IF lines = << >> THEN unfolded_lines
    ELSE LET line == lines[1]
         IN  Unfold(Tail(lines),
                    IF line # << >> /\ line[1] \in {" ", "\t"}
                    THEN IF unfolded_lines # << >>
                         THEN [unfolded_lines EXCEPT ![Len(unfolded_lines)] = @ \o Tail(line)]
                         ELSE unfolded_lines
                    ELSE Append(unfolded_lines, line))
    ) : lines \in {lines_}, unfolded_lines \in {unfolded_lines_}} : TRUE
UnfoldedLines(vcard_) ==
    CHOOSE v_ \in {(
        Unfold(SplitOn(vcard, "\n"), << >>)
    ) : vcard \in {vcard_}} : TRUE

\* r'^NAME(?:;.*?)?:(.*?)(?:\r?\n|$)' on one line, re.IGNORECASE: the line
\* starts with the field name followed by ':' or by ';' and a later ':';
\* the value is what follows the first such ':'
FieldColon(line_, name_) ==
    CHOOSE v_ \in {(
    LET n == Len(name)
    IN  IF ~StartsAt(StrLower(line), name, 1) \/ Len(line) <= n THEN 0
        ELSE IF line[n + 1] = ":" THEN n + 1
        ELSE IF line[n + 1] = ";" THEN FindFrom(line, ":", n + 2)
        ELSE 0
    ) : line \in {line_}, name \in {name_}} : TRUE
FieldMatches(line_, name_) ==
    CHOOSE v_ \in {(
        FieldColon(line, name) > 0
    ) : line \in {line_}, name \in {name_}} : TRUE
\* group(1); a '\r' that ends the line stays out of it only before a '\n',
\* and the content read in text mode holds no '\r'
FieldValue(line_, name_) ==
    CHOOSE v_ \in {(
        Slice(line, FieldColon(line, name) + 1, Len(line))
    ) : line \in {line_}, name \in {name_}} : TRUE

\* re.search: the value of the first line that matches, or None
NoMatch == <<"None">>
FirstField(lines_, name_) ==
    CHOOSE v_ \in {(
    LET hits == {i \in 1..Len(lines) : FieldMatches(lines[i], name)}
    IN  IF hits = {} THEN NoMatch ELSE FieldValue(lines[Min(hits)], name)
    ) : lines \in {lines_}, name \in {name_}} : TRUE
\* re.findall: the values of all lines that match, in order
AllFields(lines_, name_) ==
    CHOOSE v_ \in {(
    LET hits == SelectSeq(lines, LAMBDA l : FieldMatches(l, name))
    IN  [i \in 1..Len(hits) |-> FieldValue(hits[i], name)]
    ) : lines \in {lines_}, name \in {name_}} : TRUE

kw_fn == <<"f","n">>
kw_n == <<"n">>
kw_email_field == <<"e","m","a","i","l">>

\* full_name.split(None, 1)
SplitFirstToken(full_name_) ==
    CHOOSE v_ \in {(
    LET s == LStripChars(full_name, Whitespace)
        e == RunEnd(s, 1, {c \in Range(s) : c \notin Whitespace})
        rest == LStripChars(Slice(s, e, Len(s)), Whitespace)
    IN  IF s = << >> THEN << >>
        ELSE IF rest = << >> THEN <<Slice(s, 1, e - 1)>>
        ELSE <<Slice(s, 1, e - 1), rest>>
    ) : full_name \in {full_name_}} : TRUE

\* the names of a card with the full name split whenever there is one, the
\* N field being read only for a card without full name
CardNamesFullNameFirst(lines_) ==
    CHOOSE v_ \in {(
    LET fn == FirstField(lines, kw_fn)
        full_name == IF fn = NoMatch THEN << >> ELSE Strip(fn)
        n == FirstField(lines, kw_n)
        n_parts == IF n = NoMatch THEN << >>
                   ELSE LET parts == SplitOn(n, ";")
                        IN  [i \in 1..Len(parts) |-> Strip(parts[i])]
        name_parts == SplitFirstToken(full_name)
    IN  IF Len(name_parts) >= 2
        THEN [first_name |-> name_parts[1], last_name |-> name_parts[2]]
        ELSE IF Len(name_parts) = 1
        THEN [first_name |-> name_parts[1], last_name |-> << >>]
        ELSE IF Len(n_parts) >= 2
        THEN [first_name |-> n_parts[2], last_name |-> n_parts[1]]
        ELSE IF Len(n_parts) = 1
        THEN [first_name |-> << >>, last_name |-> n_parts[1]]
        ELSE [first_name |-> << >>, last_name |-> << >>]
    ) : lines \in {lines_}} : TRUE

\* first_name and last_name of a card (lines 85-111)
CardNames(lines_) ==
    CHOOSE v_ \in {(
    LET fn == FirstField(lines, kw_fn)
        full_name == IF fn = NoMatch THEN << >> ELSE Strip(fn)
        n == FirstField(lines, kw_n)
        n_parts == IF n = NoMatch THEN << >>
                   ELSE LET parts == SplitOn(n, ";")
                        IN  [i \in 1..Len(parts) |-> Strip(parts[i])]
        fromN == IF Len(n_parts) >= 2
                 THEN [first_name |-> n_parts[2], last_name |-> n_parts[1]]
                 ELSE IF Len(n_parts) = 1 /\ n_parts[1] # << >>
                 THEN [first_name |-> << >>, last_name |-> n_parts[1]]
                 ELSE [first_name |-> << >>, last_name |-> << >>]
        name_parts == SplitFirstToken(full_name)
    IN  IF full_name # << >> /\ fromN.first_name = << >> /\ fromN.last_name = << >>
        THEN IF Len(name_parts) >= 2
             THEN [first_name |-> name_parts[1], last_name |-> name_parts[2]]
             ELSE IF Len(name_parts) = 1
             THEN [first_name |-> name_parts[1], last_name |-> << >>]
             ELSE fromN
        ELSE fromN
    ) : lines \in {lines_}} : TRUE

\* re.match(r'^[A-Za-z0-9._%+-]+@[A-Za-z0-9.-]+\.[A-Z|a-z]{2,}$', email)
ValidEmailShape(email_) ==
    CHOOSE v_ \in {(
    \E t \in DollarBodies(email) :
        LET a == FindFrom(t, "@", 1)
            p == RFind(t, ".")
        IN  /\ a >= 2
            /\ AllIn(Slice(t, 1, a - 1), LocalChar)
            /\ p >= a + 2
            /\ AllIn(Slice(t, a + 1, p - 1), DomainChar)
            /\ Len(t) - p >= 2
            /\ AllIn(Slice(t, p + 1, Len(t)), TldChar)
    ) : email \in {email_}} : TRUE

\* cleaned_emails of a card (lines 115-127)
CleanEmail(email_) ==
    CHOOSE v_ \in {(
        RStripChars(Strip(email), {";", ":", " ", "\t"})
    ) : email \in {email_}} : TRUE
CleanedEmails(lines_) ==
    CHOOSE v_ \in {(
    LET emails == AllFields(lines, kw_email_field)
        cleaned == [i \in 1..Len(emails) |-> CleanEmail(emails[i])]
    IN  SelectSeq(cleaned, LAMBDA e : e # << >> /\ "@" \in Range(e) /\ ValidEmailShape(e))
    ) : lines \in {lines_}} : TRUE

(***************************************************************************)
(* Inputs: the files the runs of the model read                            *)
(***************************************************************************)
\* lines of CSV files
\* First Name,Email
LineFirstNameEmail == <<"F","i","r","s","t"," ","N","a","m","e",",","E","m","a","i","l">>
\* Email,Last Name
LineEmailLastName == <<"E","m","a","i","l",",","L","a","s","t"," ","N","a","m","e">>
\* Al,a@b.co
LineAl == <<"A","l",",","a","@","b",".","c","o">>
\* ,a@b.co q---q@b.co
LineNoName == <<",","a","@","b",".","c","o"," ","q","-","-","-","q","@","b",".","c","o">>
\* Bo,Z@gmail.co
LineGmail == <<"B","o",",","Z","@","g","m","a","i","l",".","c","o">>
\* a@b.co.x@y.co
LineTwoInOne == <<"a","@","b",".","c","o",".","x","@","y",".","c","o">>
\* hi
LineHi == <<"h","i">>
CsvLines == {LineFirstNameEmail, LineEmailLastName, LineAl, LineNoName, LineGmail, LineTwoInOne, LineHi}

\* cards of VCF files
\* BEGIN:VCARD\nFN:Al Li\nEMAIL:a@b.co\nEND:VCARD\n
CardFn == <<"B","E","G","I","N",":","V","C","A","R","D","\n","F","N",":","A","l"," ","L","i","\n","E","M","A","I","L",":","a","@","b",".","c","o","\n","E","N","D",":","V","C","A","R","D","\n">>
\* BEGIN:VCARD\nN:Li;Bo\nEMAIL;TYPE=X:Z@b.co\nEMAIL:a@b.co\nEND:VCARD\n
CardN == <<"B","E","G","I","N",":","V","C","A","R","D","\n","N",":","L","i",";","B","o","\n","E","M","A","I","L",";","T","Y","P","E","=","X",":","Z","@","b",".","c","o","\n","E","M","A","I","L",":","a","@","b",".","c","o","\n","E","N","D",":","V","C","A","R","D","\n">>
\* BEGIN:VCARD\nEMAIL:a@b.co\nEMAIL:-q@b.co\nEND:VCARD\n
CardNoName == <<"B","E","G","I","N",":","V","C","A","R","D","\n","E","M","A","I","L",":","a","@","b",".","c","o","\n","E","M","A","I","L",":","-","q","@","b",".","c","o","\n","E","N","D",":","V","C","A","R","D","\n">>
\* BEGIN:VCARD\nFN:No\n Mail\nEMAIL:q---q@b\n .co;\nEND:VCARD\n
CardFolded == <<"B","E","G","I","N",":","V","C","A","R","D","\n","F","N",":","N","o","\n"," ","M","a","i","l","\n","E","M","A","I","L",":","q","-","-","-","q","@","b","\n"," ",".","c","o",";","\n","E","N","D",":","V","C","A","R","D","\n">>
\* BEGIN:VCARD\nN:Solo\nEMAIL:bad@x\nEND:VCARD\n
CardNoEmail == <<"B","E","G","I","N",":","V","C","A","R","D","\n","N",":","S","o","l","o","\n","E","M","A","I","L",":","b","a","d","@","x","\n","E","N","D",":","V","C","A","R","D","\n">>
VcfCards == {CardFn, CardN, CardNoName, CardFolded, CardNoEmail}

MaxRows == 3
MaxCards == 2
MaxPasses == 1

RECURSIVE Concat(_)
Concat(parts_) ==
    CHOOSE v_ \in {(
        IF parts = << >> THEN << >> ELSE parts[1] \o Concat(Tail(parts))
    ) : parts \in {parts_}} : TRUE
SeqsUpTo(S_, n_) ==
    CHOOSE v_ \in {(
        UNION {[1..k -> S] : k \in 1..n}
    ) : S \in {S_}, n \in {n_}} : TRUE

\* a CSV file: up to MaxRows lines, each ended by a newline
CsvFile(ls_) ==
    CHOOSE v_ \in {(
        Concat([i \in 1..Len(ls) |-> ls[i] \o <<"\n">>])
    ) : ls \in {ls_}} : TRUE
CsvContents == {CsvFile(ls) : ls \in SeqsUpTo(CsvLines, MaxRows)}
\* a VCF file: up to MaxCards cards
VcfContents == {Concat(cs) : cs \in SeqsUpTo(VcfCards, MaxCards)}

(***************************************************************************)
(* One file through find_emails_in_csv or parse_vcf_file, then through     *)
(* filter_suspicious_emails and write_emails_to_csv, and the written file  *)
(* through find_emails_in_csv again                                        *)
(***************************************************************************)
\* the local state of an ingester when it is called
IngesterStart ==
    /\ delimiter = ","
    /\ rows = << >>
    /\ header_row = None
    /\ first_name_col = None
    /\ last_name_col = None
    /\ email_cols = << >>
    /\ row_idx = 0
    /\ vcards = << >>
    /\ first_name = << >>
    /\ last_name = << >>
    /\ found_emails = {}
    /\ cleaned_emails = << >>
    /\ email_records = << >>
    /\ result = << >>

\* no file is being read
PipelineIdle ==
    /\ pc = "idle"
    /\ kind = "none"
    /\ content = << >>
    /\ pass = 0
    /\ IngesterStart
    /\ valid_records = << >>
    /\ suspicious_records = << >>
    /\ written = << >>
    /\ output = << >>

PipelineInit ==
    /\ pc = "open"
    /\ pass = 0
    /\ \/ kind = "csv" /\ content \in CsvContents
       \/ kind = "vcf" /\ content \in VcfContents
    /\ IngesterStart
    /\ valid_records = << >>
    /\ suspicious_records = << >>
    /\ written = << >>
    /\ output = << >>


\* the other parts of the model at rest
BatchIdle ==
    /\ b_pc = "idle"
    /\ folder_exists = FALSE
    /\ csv_files = << >>
    /\ vcf_files = << >>
    /\ filter_suspicious = TRUE
    /\ total_files = 0
    /\ processed = 0
    /\ file_idx = 0
    /\ success = FALSE
    /\ attempts = << >>
    /\ files_out = {}
ClassifyIdle == cl_pc = "idle" /\ cl_email = << >> /\ cl_result = FALSE

Init == PipelineInit /\ BatchIdle /\ ClassifyIdle

header_vars == <<header_row, first_name_col, last_name_col, email_cols>>
row_vars == <<row_idx, first_name, last_name, found_emails, cleaned_emails>>
file_vars == <<kind, content, pass>>
out_vars == <<valid_records, suspicious_records, written, output>>

\* lines 145-148 and 396-399: open() or read() fails and the ingester raises
IngestError ==
    /\ pc = "open"
    /\ pc' = "raised"
    /\ UNCHANGED <<file_vars, delimiter, rows, header_vars, row_vars, vcards, email_records,
                   result, out_vars>>
    /\ UNCHANGED <<bvars, cvars>>

\* lines 290-306: the delimiter is sniffed, counted, or there is none
DetectDelimiter ==
    /\ pc = "open" /\ kind = "csv"
    /\ \E d \in DetectedDelimiters(content) : delimiter' = d
    /\ pc' = "detected"
    /\ UNCHANGED <<file_vars, rows, header_vars, row_vars, vcards, email_records, result, out_vars>>
    /\ UNCHANGED <<bvars, cvars>>

\* lines 308-310: no delimiter, the whole content is searched
ExtractFreeText ==
    /\ pc = "detected" /\ delimiter = NoDelimiter
    /\ found_emails' = extract_emails_from_text(content)
    /\ pc' = IF found_emails' = {} THEN "sort" ELSE "text"
    /\ UNCHANGED <<file_vars, delimiter, rows, header_vars, row_idx, first_name, last_name,
                   cleaned_emails, vcards, email_records, result, out_vars>>
    /\ UNCHANGED <<bvars, cvars>>

\* lines 311-313: one email of the free text
InsertFreeText ==
    /\ pc = "text"
    /\ \E email \in found_emails :
          /\ email_records' = IF ~InStore(email_records, email)
                              THEN Append(email_records, EmailRecord(<< >>, << >>, email))
                              ELSE email_records
          /\ found_emails' = found_emails \ {email}
    /\ pc' = IF found_emails' = {} THEN "sort" ELSE "text"
    /\ UNCHANGED <<file_vars, delimiter, rows, header_vars, row_idx, first_name, last_name,
                   cleaned_emails, vcards, result, out_vars>>
    /\ UNCHANGED <<bvars, cvars>>

\* lines 316-356: the rows are read, the header is looked for in the first
\* five rows and the first data row is chosen; no row at all returns []
ParseRows ==
    /\ pc = "detected" /\ delimiter # NoDelimiter
    /\ rows' = CsvReader(content, delimiter)
    /\ IF rows' = << >>
       THEN /\ pc' = "ingested"
            /\ UNCHANGED <<header_vars, row_idx>>
       ELSE LET h == DetectHeader(rows')
            IN  /\ header_row' = h.header_row
                /\ first_name_col' = h.first_name_col
                /\ last_name_col' = h.last_name_col
                /\ email_cols' = h.email_cols
                /\ row_idx' = StartRow(h.header_row)
                /\ pc' = IF row_idx' < Len(rows') THEN "rows" ELSE "sort"
    /\ UNCHANGED <<file_vars, delimiter, first_name, last_name, found_emails, cleaned_emails,
                   vcards, email_records, result, out_vars>>
    /\ UNCHANGED <<bvars, cvars>>

\* lines 358-381: the names and the emails of the next data row
NextRow ==
    /\ pc = "rows" /\ row_idx < Len(rows)
    /\ LET row == rows[row_idx + 1]
       IN  /\ first_name' = NameFromColumn(row, first_name_col)
           /\ last_name' = NameFromColumn(row, last_name_col)
           /\ found_emails' = RowEmails(row, email_cols)
    /\ IF found_emails' = {}
       THEN /\ row_idx' = row_idx + 1
            /\ pc' = IF row_idx' < Len(rows) THEN "rows" ELSE "sort"
       ELSE /\ row_idx' = row_idx
            /\ pc' = "insert"
    /\ UNCHANGED <<file_vars, delimiter, rows, header_vars, cleaned_emails, vcards,
                   email_records, result, out_vars>>
    /\ UNCHANGED <<bvars, cvars>>

\* lines 384-394: one email of the row is stored or merged (a set is walked
\* in no particular order)
InsertCsv ==
    /\ pc = "insert"
    /\ \E email \in found_emails :
          /\ email_records' = InsertOrMerge(email_records, first_name, last_name, email)
          /\ found_emails' = found_emails \ {email}
    /\ IF found_emails' = {}
       THEN /\ row_idx' = row_idx + 1
            /\ pc' = IF row_idx' < Len(rows) THEN "rows" ELSE "sort"
       ELSE /\ row_idx' = row_idx
            /\ pc' = "insert"
    /\ UNCHANGED <<file_vars, delimiter, rows, header_vars, first_name, last_name,
                   cleaned_emails, vcards, result, out_vars>>
    /\ UNCHANGED <<bvars, cvars>>

\* lines 63-68: the cards of the file
SplitVcards ==
    /\ pc = "open" /\ kind = "vcf"
    /\ vcards' = SplitCards(content)
    /\ pc' = "cards"
    /\ UNCHANGED <<file_vars, delimiter, rows, header_vars, row_vars, email_records, result, out_vars>>
    /\ UNCHANGED <<bvars, cvars>>

\* the names of a card with the initialisation of lines 85-87 left out: a
\* card without a name keeps the names of the card before
NextCardKeepNames ==
    /\ pc = "cards" /\ row_idx < Len(vcards)
    /\ LET lines == UnfoldedLines(vcards[row_idx + 1])
       IN  /\ first_name' = IF CardNames(lines).first_name = << >> THEN first_name
                            ELSE CardNames(lines).first_name
           /\ last_name' = IF CardNames(lines).last_name = << >> THEN last_name
                           ELSE CardNames(lines).last_name
           /\ cleaned_emails' = CleanedEmails(lines)
    /\ IF cleaned_emails' = << >>
       THEN /\ row_idx' = row_idx + 1
            /\ pc' = IF row_idx' < Len(vcards) THEN "cards" ELSE "sort"
       ELSE /\ row_idx' = row_idx
            /\ pc' = "vinsert"
    /\ UNCHANGED <<file_vars, delimiter, rows, header_vars, found_emails, vcards,
                   email_records, result, out_vars>>
    /\ UNCHANGED <<bvars, cvars>>

\* lines 70-131: the names and the emails of the next card; a card without
\* a valid email is skipped
NextCard ==
    /\ pc = "cards" /\ row_idx < Len(vcards)
    /\ LET lines == UnfoldedLines(vcards[row_idx + 1])
       IN  /\ first_name' = CardNames(lines).first_name
           /\ last_name' = CardNames(lines).last_name
           /\ cleaned_emails' = CleanedEmails(lines)
    /\ IF cleaned_emails' = << >>
       THEN /\ row_idx' = row_idx + 1
            /\ pc' = IF row_idx' < Len(vcards) THEN "cards" ELSE "sort"
       ELSE /\ row_idx' = row_idx
            /\ pc' = "vinsert"
    /\ UNCHANGED <<file_vars, delimiter, rows, header_vars, found_emails, vcards,
                   email_records, result, out_vars>>
    /\ UNCHANGED <<bvars, cvars>>

\* lines 134-143: the next email of the card is stored or merged
InsertVcf ==
    /\ pc = "vinsert"
    /\ email_records' = InsertOrMerge(email_records, first_name, last_name, Head(cleaned_emails))
    /\ cleaned_emails' = Tail(cleaned_emails)
    /\ IF cleaned_emails' = << >>
       THEN /\ row_idx' = row_idx + 1
            /\ pc' = IF row_idx' < Len(vcards) THEN "cards" ELSE "sort"
       ELSE /\ row_idx' = row_idx
            /\ pc' = "vinsert"
    /\ UNCHANGED <<file_vars, delimiter, rows, header_vars, first_name, last_name,
                   found_emails, vcards, result, out_vars>>
    /\ UNCHANGED <<bvars, cvars>>

\* lines 151 and 402: the store is returned sorted by email
ReturnSorted ==
    /\ pc = "sort"
    /\ result' = SortedByEmail(email_records)
    /\ pc' = "ingested"
    /\ UNCHANGED <<file_vars, delimiter, rows, header_vars, row_vars, vcards, email_records, out_vars>>
    /\ UNCHANGED <<bvars, cvars>>

\* lines 456 and 522: the returned list is partitioned
Filter ==
    /\ pc = "ingested"
    /\ valid_records' = filter_suspicious_emails(result).valid
    /\ suspicious_records' = filter_suspicious_emails(result).suspicious
    /\ pc' = "filtered"
    /\ UNCHANGED <<file_vars, delimiter, rows, header_vars, row_vars, vcards, email_records,
                   result, written, output>>
    /\ UNCHANGED <<bvars, cvars>>

\* write_emails_to_csv(records, output_file): the header and one row per record
output_header ==
    << <<"F","i","r","s","t"," ","N","a","m","e">>,
       <<"L","a","s","t"," ","N","a","m","e">>,
       <<"E","m","a","i","l">> >>
RECURSIVE WriteRecords(_)
WriteRecords(records_) ==
    CHOOSE v_ \in {(
    IF records = << >> THEN << >>
    ELSE WriteRow(<<records[1].first_name, records[1].last_name, records[1].email>>)
         \o WriteRecords(Tail(records))
    ) : records \in {records_}} : TRUE
write_emails_to_csv(records_) ==
    CHOOSE v_ \in {(
        WriteRow(output_header) \o WriteRecords(records)
    ) : records \in {records_}} : TRUE

\* lines 481/485 and 547/551, or a caller writing the list as returned
WriteEmails ==
    /\ pc = "filtered" /\ pass < MaxPasses
    /\ \E records \in {result, valid_records, suspicious_records} :
          /\ written' = records
          /\ output' = write_emails_to_csv(records)
    /\ pc' = "written"
    /\ UNCHANGED <<file_vars, delimiter, rows, header_vars, row_vars, vcards, email_records,
                   result, valid_records, suspicious_records>>
    /\ UNCHANGED <<bvars, cvars>>

\* an ingester is called on a file: its locals are those of IngesterStart
Call(k, text) ==
    /\ pc' = "open"
    /\ kind' = k
    /\ content' = text
    /\ delimiter' = ","
    /\ rows' = << >>
    /\ header_row' = None
    /\ first_name_col' = None
    /\ last_name_col' = None
    /\ email_cols' = << >>
    /\ row_idx' = 0
    /\ vcards' = << >>
    /\ first_name' = << >>
    /\ last_name' = << >>
    /\ found_emails' = {}
    /\ cleaned_emails' = << >>
    /\ email_records' = << >>
    /\ result' = << >>

\* find_emails_in_csv is called on the written file
ReadBack ==
    /\ pc = "written"
    /\ Call("csv", UniversalNewlines(output))
    /\ pass' = pass + 1
    /\ UNCHANGED out_vars
    /\ UNCHANGED <<bvars, cvars>>

Next ==
    \/ IngestError
    \/ DetectDelimiter
    \/ ExtractFreeText
    \/ InsertFreeText
    \/ ParseRows
    \/ NextRow
    \/ InsertCsv
    \/ SplitVcards
    \/ NextCard
    \/ InsertVcf
    \/ ReturnSorted
    \/ Filter
    \/ WriteEmails
    \/ ReadBack

Spec == Init /\ [][Next]_vars

(***************************************************************************)
(* process_folder: every *.csv and *.vcf file of a folder, one after the   *)
(* other, each through process_csv_file or process_vcf_file                *)
(***************************************************************************)
MaxFiles == 2

\* a path of the folder: the stem is a number, the suffix .csv or .vcf
CsvPath(stem_) ==
    CHOOSE v_ \in {(
        [stem |-> stem, suffix |-> ".csv"]
    ) : stem \in {stem_}} : TRUE
VcfPath(stem_) ==
    CHOOSE v_ \in {(
        [stem |-> stem, suffix |-> ".vcf"]
    ) : stem \in {stem_}} : TRUE

\* what folder.glob("*.csv") and folder.glob("*.vcf") list: distinct paths
Folders ==
    {[csv |-> [i \in 1..nm[1] |-> CsvPath(i)], vcf |-> [i \in 1..nm[2] |-> VcfPath(i)]] :
        nm \in {p \in (0..MaxFiles) \X (0..MaxFiles) : p[1] + p[2] <= MaxFiles}}

\* what a file of the folder may hold when it is read
BatchCsvContents ==
    {CsvFile(<<LineNoName>>), CsvFile(<<LineTwoInOne, LineHi>>), CsvFile(<<LineHi>>)}
BatchVcfContents == {CardFolded, CardFn, CardNoEmail}
BatchContents(suffix_) ==
    CHOOSE v_ \in {(
        IF suffix = ".vcf" THEN BatchVcfContents ELSE BatchCsvContents
    ) : suffix \in {suffix_}} : TRUE

\* the two loops of lines 595-603 walk csv_files, then vcf_files
AllFiles == csv_files \o vcf_files
CurrentFile == AllFiles[file_idx + 1]
FileKind(file_) ==
    CHOOSE v_ \in {(
        IF file.suffix = ".vcf" THEN "vcf" ELSE "csv"
    ) : file \in {file_}} : TRUE

\* lines 471-474 and 537-540: the default output paths, in the output folder
ValidOutput(file_) ==
    CHOOSE v_ \in {(
    [stem |-> file.stem, tag |-> "_emails",
     suffix |-> IF FileKind(file) = "vcf" THEN ".csv" ELSE file.suffix]
    ) : file \in {file_}} : TRUE
SuspiciousOutput(file_) ==
    CHOOSE v_ \in {(
    [stem |-> file.stem, tag |-> "_suspicious",
     suffix |-> IF FileKind(file) = "vcf" THEN ".csv" ELSE file.suffix]
    ) : file \in {file_}} : TRUE

\* what process_csv_file and process_vcf_file print before they return
MsgNotFound == "Error: File not found."
MsgNoEmails == "No email addresses found."
MsgErrorProcessing == "Error processing"
MsgErrorWriting == "Error writing CSV file"
MsgWrote == "Successfully wrote"

BatchInit ==
    /\ b_pc = "start"
    /\ folder_exists \in BOOLEAN
    /\ \E f \in Folders : csv_files = f.csv /\ vcf_files = f.vcf
    /\ filter_suspicious \in BOOLEAN
    /\ total_files = 0
    /\ processed = 0
    /\ file_idx = 0
    /\ success = FALSE
    /\ attempts = << >>
    /\ files_out = {}
    /\ PipelineIdle
    /\ ClassifyIdle

folder_vars == <<folder_exists, csv_files, vcf_files, filter_suspicious>>

\* lines 570-572: the folder is missing or no directory
FolderNotFound ==
    /\ b_pc = "start" /\ ~folder_exists
    /\ b_pc' = "returned"
    /\ UNCHANGED <<folder_vars, total_files, processed, file_idx, success, attempts, files_out>>
    /\ UNCHANGED <<pvars, cvars>>

\* lines 577-579: the folder holds no CSV and no VCF file
NoFilesFound ==
    /\ b_pc = "start" /\ folder_exists
    /\ csv_files = << >> /\ vcf_files = << >>
    /\ b_pc' = "returned"
    /\ UNCHANGED <<folder_vars, total_files, processed, file_idx, success, attempts, files_out>>
    /\ UNCHANGED <<pvars, cvars>>

\* lines 581-594: the output folder is made (mkdir is in no try block, its
\* failure ends process_folder), the files are counted, the loop starts
StartBatch ==
    /\ b_pc = "start" /\ folder_exists
    /\ csv_files # << >> \/ vcf_files # << >>
    /\ \E mkdir_ok \in BOOLEAN :
          IF mkdir_ok
          THEN /\ total_files' = Len(csv_files) + Len(vcf_files)
               /\ b_pc' = "loop"
          ELSE /\ total_files' = total_files
               /\ b_pc' = "raised"
    /\ processed' = 0
    /\ UNCHANGED <<folder_vars, file_idx, success, attempts, files_out>>
    /\ UNCHANGED <<pvars, cvars>>

\* process_*_file has returned: its locals and the ingester's are gone
PipelineReturn ==
    /\ pc' = "idle"
    /\ kind' = "none"
    /\ content' = << >>
    /\ pass' = 0
    /\ delimiter' = ","
    /\ rows' = << >>
    /\ header_row' = None
    /\ first_name_col' = None
    /\ last_name_col' = None
    /\ email_cols' = << >>
    /\ row_idx' = 0
    /\ vcards' = << >>
    /\ first_name' = << >>
    /\ last_name' = << >>
    /\ found_emails' = {}
    /\ cleaned_emails' = << >>
    /\ email_records' = << >>
    /\ result' = << >>
    /\ valid_records' = << >>
    /\ suspicious_records' = << >>
    /\ written' = << >>
    /\ output' = << >>

\* a loop that a failed file ends: the summary follows at once
FileDoneAbort(ret, message) ==
    /\ success' = ret
    /\ attempts' = Append(attempts, [file |-> CurrentFile, ret |-> ret, message |-> message])
    /\ processed' = IF ret THEN processed + 1 ELSE processed
    /\ file_idx' = file_idx + 1
    /\ b_pc' = IF ret /\ file_idx + 1 < total_files THEN "loop" ELSE "summary"
    /\ PipelineReturn

\* lines 596-598 and 601-603: process_*_file returns ret, having printed
\* message; processed counts the True returns; the loop goes on
FileDone(ret, message) ==
    /\ success' = ret
    /\ attempts' = Append(attempts, [file |-> CurrentFile, ret |-> ret, message |-> message])
    /\ processed' = IF ret THEN processed + 1 ELSE processed
    /\ file_idx' = file_idx + 1
    /\ b_pc' = IF file_idx + 1 < total_files THEN "loop" ELSE "summary"
    /\ PipelineReturn

\* lines 442-448 and 508-514: the next file is missing and False is
\* returned, or it is there and the ingester is called on it
BeginFile ==
    /\ b_pc = "loop" /\ file_idx < total_files
    /\ \E found \in BOOLEAN :
          IF ~found
          THEN FileDone(FALSE, MsgNotFound)
          ELSE /\ \E text \in BatchContents(CurrentFile.suffix) :
                     Call(FileKind(CurrentFile), text)
               /\ b_pc' = "ingesting"
               /\ UNCHANGED <<pass, out_vars, processed, file_idx, success, attempts>>
    /\ UNCHANGED <<folder_vars, total_files, files_out>>
    /\ UNCHANGED cvars

\* lines 489-491 and 555-557: the ingester raised, False is returned
FileRaised ==
    /\ b_pc = "ingesting" /\ pc = "raised"
    /\ FileDone(FALSE, MsgErrorProcessing)
    /\ UNCHANGED <<folder_vars, total_files, files_out>>
    /\ UNCHANGED cvars

\* lines 450-452 and 516-518: the ingester returned no record, False is
\* returned
FileEmpty ==
    /\ b_pc = "ingesting" /\ pc = "ingested"
    /\ result = << >>
    /\ FileDone(FALSE, MsgNoEmails)
    /\ UNCHANGED <<folder_vars, total_files, files_out>>
    /\ UNCHANGED cvars

\* lines 454-461 and 520-527: the records are partitioned, or all are valid
FilterFile ==
    /\ b_pc = "ingesting" /\ pc = "ingested"
    /\ result # << >>
    /\ valid_records' = IF filter_suspicious THEN filter_suspicious_emails(result).valid
                        ELSE result
    /\ suspicious_records' = IF filter_suspicious
                             THEN filter_suspicious_emails(result).suspicious
                             ELSE << >>
    /\ pc' = "filtered"
    /\ UNCHANGED <<file_vars, delimiter, rows, header_vars, row_vars, vcards, email_records,
                   result, written, output>>
    /\ UNCHANGED <<bvars, cvars>>

\* open(output_file, 'w') and the rows: the file at that path is replaced,
\* or the write fails and write_emails_to_csv returns False
WriteFile(files_, ok_, path_, records_) ==
    CHOOSE v_ \in {(
    IF ~ok THEN files
    ELSE {f \in files : f.path # path}
         \cup {[path |-> path, source |-> CurrentFile, records |-> records]}
    ) : files \in {files_}, ok \in {ok_}, path \in {path_}, records \in {records_}} : TRUE

\* the outputs of a file with the result of both writes returned: a failed
\* write of the suspicious list makes the file a failure
WriteOutputsBothReturned ==
    /\ b_pc = "ingesting" /\ pc = "filtered"
    /\ \E mkdir_ok, valid_ok, suspicious_ok \in BOOLEAN :
          IF ~mkdir_ok
          THEN /\ files_out' = files_out
               /\ FileDone(FALSE, MsgErrorProcessing)
          ELSE /\ files_out' =
                     WriteFile(WriteFile(files_out, valid_ok, ValidOutput(CurrentFile),
                                         valid_records),
                               suspicious_ok /\ suspicious_records # << >>,
                               SuspiciousOutput(CurrentFile), suspicious_records)
               /\ FileDone(valid_ok /\ (suspicious_ok \/ suspicious_records = << >>),
                           IF valid_ok THEN MsgWrote ELSE MsgErrorWriting)
    /\ UNCHANGED <<folder_vars, total_files>>
    /\ UNCHANGED cvars

\* lines 463-488 and 529-554: the output folder is made (a failure is caught
\* and False is returned), the valid list is written, the suspicious list is
\* written if it is not empty, and the result of the first write is returned
WriteOutputs ==
    /\ b_pc = "ingesting" /\ pc = "filtered"
    /\ \E mkdir_ok, valid_ok, suspicious_ok \in BOOLEAN :
          IF ~mkdir_ok
          THEN /\ files_out' = files_out
               /\ FileDone(FALSE, MsgErrorProcessing)
          ELSE /\ files_out' =
                     WriteFile(WriteFile(files_out, valid_ok, ValidOutput(CurrentFile),
                                         valid_records),
                               suspicious_ok /\ suspicious_records # << >>,
                               SuspiciousOutput(CurrentFile), suspicious_records)
               /\ FileDone(valid_ok, IF valid_ok THEN MsgWrote ELSE MsgErrorWriting)
    /\ UNCHANGED <<folder_vars, total_files>>
    /\ UNCHANGED cvars

\* line 605: the summary is printed
PrintSummary ==
    /\ b_pc = "summary"
    /\ b_pc' = "done"
    /\ UNCHANGED <<folder_vars, total_files, processed, file_idx, success, attempts, files_out>>
    /\ UNCHANGED <<pvars, cvars>>

NextBatch ==
    \/ FolderNotFound
    \/ NoFilesFound
    \/ StartBatch
    \/ BeginFile
    \/ IngestError
    \/ DetectDelimiter
    \/ ExtractFreeText
    \/ InsertFreeText
    \/ ParseRows
    \/ NextRow
    \/ InsertCsv
    \/ SplitVcards
    \/ NextCard
    \/ InsertVcf
    \/ ReturnSorted
    \/ FileRaised
    \/ FileEmpty
    \/ FilterFile
    \/ WriteOutputs
    \/ PrintSummary

SpecBatch == BatchInit /\ [][NextBatch]_vars

\* a sequential program: the step that is enabled is taken
FairSpecBatch == SpecBatch /\ WF_vars(NextBatch)

(***************************************************************************)
(* is_suspicious_email applied to one address                              *)
(***************************************************************************)
\* local parts: the first n characters of a1b2c3d4e5f6g7h8i9j0k1l2m3n4o5p6...
LocalPattern ==
    <<"a","1","b","2","c","3","d","4","e","5","f","6","g","7","h","8","i","9","j","0",
      "k","1","l","2","m","3","n","4","o","5","p","6","q","7","r","8","s","9","t","0",
      "u","1","v","2","w","3","x","4","y","5","z","6">>
MaxLocalLen == 45
\* test.com, noreply.org
ClassifyDomains ==
    {<<"t","e","s","t",".","c","o","m">>,
     <<"n","o","r","e","p","l","y",".","o","r","g">>}
\* the same pattern in upper case, and what follows it: nothing, a newline,
\* an '@' alone, @T.CO
UpperPattern ==
    <<"A","1","B","2","C","3","D","4","E","5","F","6","G","7","H","8","I","9","J","0","K","1","L","2","M","3","N","4","O","5","P","6","Q","7","R","8","S","9","T","0","U","1","V","2","W","3","X","4","Y","5","Z","6">>
UpperTails == {<< >>, <<"\n">>, <<"@">>, <<"@","T",".","C","O">>}
ClassifyInputs ==
    {Slice(LocalPattern, 1, n) \o <<"@">> \o d : n \in 1..MaxLocalLen, d \in ClassifyDomains}
    \cup {Slice(UpperPattern, 1, n) \o t : n \in 1..MaxLocalLen, t \in UpperTails}

ClassifyInit ==
    /\ cl_pc = "input"
    /\ cl_email \in ClassifyInputs
    /\ cl_result = FALSE
    /\ PipelineIdle
    /\ BatchIdle

Classify ==
    /\ cl_pc = "input"
    /\ cl_result' = is_suspicious_email(cl_email)
    /\ cl_pc' = "classified"
    /\ UNCHANGED <<cl_email, pvars, bvars>>

ClassifyNext == Classify

SpecClassify == ClassifyInit /\ [][ClassifyNext]_vars

(***************************************************************************)
(* parse_vcf_file applied to a file of one card: the FN line and the N     *)
(* line of the card are drawn from the forms below, or left out            *)
(***************************************************************************)
\* FN:John Doe\n
FnJohnDoe == <<"F","N",":","J","o","h","n"," ","D","o","e","\n">>
\* FN:Al\n
FnAl == <<"F","N",":","A","l","\n">>
\* FN: Al  Li Bo \n
FnSpaced == <<"F","N",":"," ","A","l"," "," ","L","i"," ","B","o"," ","\n">>
\* fn;CHARSET=X:Bo\tLi\n
FnParam == <<"f","n",";","C","H","A","R","S","E","T","=","X",":","B","o","\t","L","i","\n">>
\* N:Doe;John;;;\n
NDoeJohn == <<"N",":","D","o","e",";","J","o","h","n",";",";",";","\n">>
\* N:Solo\n
NSolo == <<"N",":","S","o","l","o","\n">>
\* N:;\n
NEmptyParts == <<"N",":",";","\n">>
\* N: ;Bo\n
NFirstOnly == <<"N",":"," ",";","B","o","\n">>
\* N:\n
NEmpty == <<"N",":","\n">>
FnLines == {<< >>, FnJohnDoe, FnAl, FnSpaced, FnParam}
NLines == {<< >>, NDoeJohn, NSolo, NEmptyParts, NFirstOnly, NEmpty}
\* BEGIN:VCARD\n
CardBegin == <<"B","E","G","I","N",":","V","C","A","R","D","\n">>
\* EMAIL:john@example.com\nEND:VCARD\n
CardEmailEnd == <<"E","M","A","I","L",":","j","o","h","n","@","e","x","a","m","p","l","e",".","c","o","m","\n","E","N","D",":","V","C","A","R","D","\n">>
NameCard(fn, n) == CardBegin \o fn \o n \o CardEmailEnd
NameCards == {NameCard(fn, n) : fn \in FnLines, n \in NLines}

InitVcf ==
    /\ pc = "open"
    /\ kind = "vcf"
    /\ content \in NameCards
    /\ pass = 0
    /\ IngesterStart
    /\ valid_records = << >>
    /\ suspicious_records = << >>
    /\ written = << >>
    /\ output = << >>
    /\ BatchIdle
    /\ ClassifyIdle

NextVcf ==
    \/ IngestError
    \/ SplitVcards
    \/ NextCard
    \/ InsertVcf
    \/ ReturnSorted

SpecVcf == InitVcf /\ [][NextVcf]_vars


(***************************************************************************)
(* Properties                                                              *)
(***************************************************************************)

\* the valid emails of the card of index i of vcards
CardEmails(i) == Range(CleanedEmails(UnfoldedLines(vcards[i])))

\* C1: in every state of find_emails_in_csv and of parse_vcf_file the record
\* store holds at most one record per email string (compared as discovered,
\* case-sensitively), and the returned list holds no two records of one email
C1_OneRecordPerEmail ==
    /\ \A i, j \in 1..Len(email_records) :
          email_records[i].email = email_records[j].email => i = j
    /\ \A i, j \in 1..Len(result) : result[i].email = result[j].email => i = j

\* two cards of one file carry the same email, and the list is returned
C1_SameEmailTwice ==
    /\ pc = "ingested" /\ kind = "vcf" /\ result # << >>
    /\ \E i, j \in 1..Len(vcards) : i < j /\ CardEmails(i) \cap CardEmails(j) # {}

\* C2: within one ingestion pass no step removes a record from the store,
\* and once the first_name (the last_name) of a record is non-empty no later
\* step changes or clears it
C2_MergeMonotonic ==
    [][pass' = pass =>
         /\ Len(email_records') >= Len(email_records)
         /\ \A i \in 1..Len(email_records) :
               /\ email_records'[i].email = email_records[i].email
               /\ email_records[i].first_name # << >> =>
                     email_records'[i].first_name = email_records[i].first_name
               /\ email_records[i].last_name # << >> =>
                     email_records'[i].last_name = email_records[i].last_name]_vars

\* a card carries the email of a record under another, non-empty first name,
\* and the record does not have that name
C2_LaterNameIgnored ==
    /\ pc = "ingested" /\ kind = "vcf"
    /\ \E k \in 1..Len(result) : \E i \in 1..Len(vcards) :
          /\ result[k].email \in CardEmails(i)
          /\ result[k].first_name # << >>
          /\ CardNames(UnfoldedLines(vcards[i])).first_name \notin {<< >>, result[k].first_name}

\* C3: filter_suspicious_emails partitions its input: every record of the
\* input is in exactly one of the two lists, none is dropped or duplicated,
\* and a record is in the suspicious list exactly when is_suspicious_email of
\* its email is true
C3_StrictPartition ==
    pc = "filtered" =>
        /\ Range(valid_records) \cup Range(suspicious_records) = Range(result)
        /\ Range(valid_records) \cap Range(suspicious_records) = {}
        /\ Len(valid_records) + Len(suspicious_records) = Len(result)
        /\ \A r \in Range(result) :
              (r \in Range(suspicious_records)) <=> is_suspicious_email(r.email)

\* a list with a valid and a suspicious record has been partitioned
C3_BothListsFilled ==
    pc = "filtered" /\ valid_records # << >> /\ suspicious_records # << >>

\* C4: the list an ingester returns is sorted ascending by email in code
\* point order, and each of the two lists of filter_suspicious_emails is a
\* subsequence of it and is sorted ascending by email
C4_SortedAndOrderKept ==
    LET Sorted(records) ==
            \A i \in 1..(Len(records) - 1) : ~StrLess(records[i + 1].email, records[i].email)
        Kept(records) ==
            SelectSeq(result, LAMBDA r : r \in Range(records)) = records
    IN  /\ pc \in {"ingested", "filtered"} => Sorted(result)
        /\ pc = "filtered" =>
              /\ Kept(valid_records) /\ Sorted(valid_records)
              /\ Kept(suspicious_records) /\ Sorted(suspicious_records)

\* the order of insertion was not the sorted order, and both lists are filled
C4_SortReordered ==
    /\ pc = "filtered" /\ email_records # result
    /\ valid_records # << >> /\ suspicious_records # << >>

\* a1b2c3d4e5f6g7h8i9j0k1l2m3n4o5p6@test.com
ScenarioEmail == Slice(LocalPattern, 1, 32) \o <<"@", "t", "e", "s", "t", ".", "c", "o", "m">>

\* C5 (as the code has it): is_suspicious_email of
\* a1b2c3d4e5f6g7h8i9j0k1l2m3n4o5p6@test.com is false: the local part has 32
\* characters, pattern 1 needs more than 40 and pattern 5 a marketing keyword
C5_ScenarioNotSuspicious ==
    (cl_pc = "classified" /\ cl_email = ScenarioEmail) => cl_result = FALSE

\* C5 (as stated): is_suspicious_email of
\* a1b2c3d4e5f6g7h8i9j0k1l2m3n4o5p6@test.com is true
C5_ScenarioSuspicious ==
    (cl_pc = "classified" /\ cl_email = ScenarioEmail) => cl_result = TRUE

\* the address of the scenario has been classified
C5_ScenarioClassified == cl_pc = "classified" /\ cl_email = ScenarioEmail

\* C6: after header detection header_row is the least index, among the first
\* five rows, of a row in which a first-name, a last-name or an email column
\* is detected, in whatever order the signals come; it is unset if there is
\* no such row
C6_HeaderRowIsMinimum ==
    (kind = "csv" /\ pc \in {"rows", "insert", "sort"} /\ rows # << >>) =>
        LET fired == {i \in 0..(Len(rows) - 1) :
                        /\ i < HeaderScanRows
                        /\ \/ FirstNameCols(rows[i + 1]) # {}
                           \/ LastNameCols(rows[i + 1]) # {}
                           \/ EmailCols(rows[i + 1]) # {}}
        IN  header_row = IF fired = {} THEN None ELSE Min(fired)

\* C7: every address extract_emails_from_text finds in any cell of any row
\* of the parsed file is the email of a record of the returned list
C7_AllCellsExtracted ==
    (kind = "csv" /\ pc = "ingested" /\ rows # << >>) =>
        \A i \in 1..Len(rows) : \A j \in 1..Len(rows[i]) :
            extract_emails_from_text(rows[i][j]) \subseteq Emails(result)

\* C8: the list an ingester returned, written by write_emails_to_csv and
\* read again by find_emails_in_csv, gives the same set of email strings
C8_RoundTripKeepsEmails ==
    (pc = "ingested" /\ pass >= 1
        /\ Len(written) = Len(valid_records) + Len(suspicious_records)) =>
        Emails(result) = Emails(written)

C10_EmptyIsNoFailure ==
    \A i, j \in 1..Len(attempts) :
        (/\ attempts[i].message = MsgNoEmails
         /\ attempts[j].message \in {MsgNotFound, MsgErrorProcessing, MsgErrorWriting})
        => attempts[i].ret # attempts[j].ret

\* C11: a CSV file whose content holds no comma, semicolon, tab or pipe is
\* read as free text, whatever the sniffer gives: no row is parsed, the
\* emails of the returned list are those extract_emails_from_text finds in
\* the whole content, and every record has empty names
C11_NoDelimiterIsFreeText ==
    (kind = "csv" /\ pc = "ingested" /\ Count(content, Range(FallbackDelimiters)) = 0) =>
        /\ delimiter = NoDelimiter
        /\ rows = << >>
        /\ Emails(result) = extract_emails_from_text(content)
        /\ \A i \in 1..Len(result) :
              result[i].first_name = << >> /\ result[i].last_name = << >>

\* C12: in one run of process_folder two files whose outputs were written
\* have different valid-output paths and different suspicious-output paths,
\* and the valid output of the earlier one is still the file at its path
C12_OutputsNotOverwritten ==
    \A i, j \in 1..Len(attempts) :
        (i < j /\ attempts[i].message = MsgWrote /\ attempts[j].message = MsgWrote) =>
            /\ ValidOutput(attempts[i].file) # ValidOutput(attempts[j].file)
            /\ SuspiciousOutput(attempts[i].file) # SuspiciousOutput(attempts[j].file)
            /\ \E f \in files_out : /\ f.path = ValidOutput(attempts[i].file)
                                    /\ f.source = attempts[i].file

\* the names of the card of index i of vcards
CardNamesOf(i) == CardNames(UnfoldedLines(vcards[i]))

\* the name field (first_name or last_name) a record of this email has after
\* the first k cards: that of the first of them that carries the email with
\* a non-empty value of the field, empty if there is none
NameAfterCards(field, email, k) ==
    LET cs == {i \in 1..k : email \in CardEmails(i) /\ CardNamesOf(i)[field] # << >>}
    IN  IF cs = {} THEN << >> ELSE CardNamesOf(Min(cs))[field]

\* C13: between two cards of parse_vcf_file the store holds exactly one
\* record per valid email of the cards read so far, its names being those of
\* the cards that carry this email (the first non-empty value of each field)
\* and never those of another card; a card without a valid email adds no
\* record and changes none, whatever names it carries
C13_RecordsFromOwnCard ==
    (kind = "vcf" /\ pc \in {"cards", "sort"}) =>
        /\ Emails(email_records) = UNION {CardEmails(i) : i \in 1..row_idx}
        /\ Len(email_records) = Cardinality(Emails(email_records))
        /\ \A k \in 1..Len(email_records) :
              /\ email_records[k].first_name =
                    NameAfterCards("first_name", email_records[k].email, row_idx)
              /\ email_records[k].last_name =
                    NameAfterCards("last_name", email_records[k].email, row_idx)

\* a card with a name and no valid email has been passed after a card that
\* gave records
C13_NamedCardSkipped ==
    /\ kind = "vcf" /\ pc = "sort" /\ Len(vcards) = 2 /\ email_records # << >>
    /\ CardEmails(1) # {} /\ CardEmails(2) = {}
    /\ CardNamesOf(2).last_name # << >>

\* the card parse_vcf_file read last
LastCardRead == IF pc = "vinsert" THEN row_idx + 1 ELSE row_idx

\* BEGIN:VCARD\nFN:John Doe\nEMAIL:john@example.com\nEND:VCARD\n
ScenarioCard == NameCard(FnJohnDoe, << >>)

\* C14: the names parse_vcf_file gives a card: with an N field of two or
\* more parts the last name is part 0 and the first name part 1, with one
\* part that part is the last name; the full name of FN is split (first
\* token the first name, the rest the last name, a single token the first
\* name alone) only if there is one and N gave neither name.  The card
\* FN:John Doe / EMAIL:john@example.com gives the one record
\* (John, Doe, john@example.com)
C14_VcfNames ==
    /\ (kind = "vcf" /\ pc \in {"vinsert", "cards", "sort"} /\ LastCardRead >= 1) =>
          LET lines == UnfoldedLines(vcards[LastCardRead])
              n == FirstField(lines, kw_n)
              split == IF n = NoMatch THEN << >> ELSE SplitOn(n, ";")
              parts == [i \in 1..Len(split) |-> Strip(split[i])]
              n_first == IF Len(parts) >= 2 THEN parts[2] ELSE << >>
              n_last == IF Len(parts) >= 1 THEN parts[1] ELSE << >>
              fn == FirstField(lines, kw_fn)
              full == IF fn = NoMatch THEN << >> ELSE Strip(fn)
              ws == {i \in 1..Len(full) : full[i] \in Whitespace}
              fn_first == IF ws = {} THEN full ELSE Slice(full, 1, Min(ws) - 1)
              fn_last == IF ws = {} THEN << >>
                         ELSE LStripChars(Slice(full, Min(ws), Len(full)), Whitespace)
          IN  IF full # << >> /\ n_first = << >> /\ n_last = << >>
              THEN first_name = fn_first /\ last_name = fn_last
              ELSE first_name = n_first /\ last_name = n_last
    /\ (kind = "vcf" /\ pc = "ingested" /\ content = ScenarioCard) =>
          result = <<EmailRecord(<<"J","o","h","n">>, <<"D","o","e">>,
                                 <<"j","o","h","n","@","e","x","a","m","p","l","e",".","c","o","m">>)>>

\* the card of the scenario has been read and its record returned
C14_ScenarioCardRead ==
    kind = "vcf" /\ pc = "ingested" /\ content = ScenarioCard /\ Len(result) = 1

\* the trimmed cell of a row (index from 1) in a detected column, empty when
\* the column is not detected or lies outside the row
ColumnValue(i, col) ==
    IF col # None /\ col < Len(rows[i]) THEN Strip(rows[i][col + 1]) ELSE << >>

\* the data rows (index from 1) in which an email is found in some cell
RowsWithEmail(email) ==
    {i \in (StartRow(header_row) + 1)..Len(rows) :
        \E j \in 1..Len(rows[i]) : email \in extract_emails_from_text(rows[i][j])}

\* the value of a name column in the first data row that has this email and
\* a non-empty value in the column, empty if there is no such row
FirstNonEmpty(email, col) ==
    LET rs == {i \in RowsWithEmail(email) : ColumnValue(i, col) # << >>}
    IN  IF rs = {} THEN << >> ELSE ColumnValue(Min(rs), col)

\* C15: after find_emails_in_csv has read a delimited file, the first_name
\* (the last_name) of every record is the trimmed value of the detected
\* first-name (last-name) column in the first data row that holds the
\* record's email and a non-empty value in that column, and is empty if
\* there is no such row, no such column, or the column is out of range
C15_FirstNonEmptyWins ==
    (kind = "csv" /\ pc = "ingested" /\ delimiter # NoDelimiter) =>
        \A k \in 1..Len(result) :
            /\ result[k].first_name = FirstNonEmpty(result[k].email, first_name_col)
            /\ result[k].last_name = FirstNonEmpty(result[k].email, last_name_col)

\* a record got its first name from a later row than the first one that
\* holds its email, that row having no value in the first-name column
C15_NameFromLaterRow ==
    /\ kind = "csv" /\ pc = "ingested" /\ delimiter # NoDelimiter
    /\ \E k \in 1..Len(result) : \E i, j \in RowsWithEmail(result[k].email) :
          /\ i < j
          /\ ColumnValue(i, first_name_col) = << >>
          /\ result[k].first_name # << >>
          /\ ColumnValue(j, first_name_col) = result[k].first_name

C17_ReturnsValidWrite ==
    [][Len(attempts') = Len(attempts) + 1 =>
         LET a == attempts'[Len(attempts')]
             valid == {f \in files_out' : f.path = ValidOutput(a.file) /\ f.source = a.file}
             suspicious == {f \in files_out' :
                               f.path = SuspiciousOutput(a.file) /\ f.source = a.file}
         IN  /\ a.ret <=> (result # << >> /\ valid # {})
             /\ \A f \in valid : f.records = valid_records
             /\ \A f \in suspicious :
                   suspicious_records # << >> /\ f.records = suspicious_records]_vars

\* a file whose records are all suspicious was processed with success: an
\* empty valid list was written, and the suspicious list
C17_EmptyValidListWritten ==
    \E i \in 1..Len(attempts) :
        /\ attempts[i].ret = TRUE
        /\ \E f \in files_out : /\ f.path = ValidOutput(attempts[i].file)
                                /\ f.source = attempts[i].file
                                /\ f.records = << >>
        /\ \E f \in files_out : /\ f.path = SuspiciousOutput(attempts[i].file)
                                /\ f.source = attempts[i].file
                                /\ f.records # << >>
====
